---- MODULE Spec2Model ----
(***************************************************************************)
(* terrain-automation.ipynb run top to bottom as one script: the           *)
(* credential prompt, the token exchange, the app search, the selection    *)
(* of the first search result and the app detail fetch.  Each statement of *)
(* a code cell is one step; a call of requests.get is two steps, the       *)
(* request going out and the response (or a transport error) coming back.  *)
(* An uncaught exception ends the run.                                     *)
(***************************************************************************)
EXTENDS Integers, Sequences, FiniteSets, TLC

VARIABLES
    pc,            \* the statement about to run, "done" or "aborted"
    error,         \* class of the uncaught exception, "none" while running
    username,      \* global `username`
    password,      \* global `password`
    r,             \* global `r`, the last response requests.get returned
    token,         \* global `token`
    auth_headers,  \* global `auth_headers`
    query_params,  \* global `query_params`
    app_listing,   \* global `app_listing`
    system_id,     \* global `system_id`
    app_id,        \* global `app_id`
    url,           \* global `url`
    printed,       \* argument tuples handed to print(), in order
    pprinted,      \* values handed to pprint.pprint(), in order
    sent,          \* history: the calls of requests.get, in order
    recv           \* history: what came back for each call, in order

vars == <<pc, error, username, password, r, token, auth_headers, query_params,
          app_listing, system_id, app_id, url, printed, pprinted, sent, recv>>

globals == <<username, password, r, token, auth_headers, query_params,
             app_listing, system_id, app_id, url>>

----------------------------------------------------------------------------
(* Bounds and input domains *)

\* longest "apps" list a search response carries
MaxApps == 2

Usernames == {"alice", "bob"}
Passwords == {"hunter2", "s3cret"}

\* statuses a server can answer with: informational, success, a redirection
\* requests does not follow (300 is not among its redirect statuses), client
\* errors and a server error
Statuses == {101, 200, 300, 401, 404, 500}

\* the strings an access_token can be
Tokens == {"abc123", "zz9"}

SystemIds == {"de", "agave"}
AppIds == {"X", "Y"}

\* a name that is not bound yet (reading it would be a NameError)
Unbound == "<unbound>"
NoObject == [unbound |-> TRUE]
NoResponse == [status |-> 0, body |-> [wf |-> FALSE, value |-> NoObject]]

\* JSON values.  A string or number leaf carries its type; an object is a
\* function from its keys.
JStr(s) == [t |-> "str", v |-> s]
JNum(s) == [t |-> "num", v |-> s]
EmptyObject == <<>>

\* a response body: text that is either not JSON at all or parses to `value`
Malformed == [wf |-> FALSE, value |-> EmptyObject]
Json(v) == [wf |-> TRUE, value |-> v]

\* bodies of GET /terrain/token
TokenBodies ==
    {Malformed, Json(EmptyObject), Json([access_token |-> JNum("42")])}
        \cup {Json([access_token |-> JStr(t)]) : t \in Tokens}

\* app summaries: both identifiers, or one of them missing
AppSummaries ==
    [system_id : SystemIds, id : AppIds]
        \cup {[system_id |-> "de"], [id |-> "X"]}

AppLists == UNION {[1..n -> AppSummaries] : n \in 0..MaxApps}

\* bodies of GET /terrain/apps
SearchBodies ==
    {Malformed, Json(EmptyObject)} \cup {Json([apps |-> l]) : l \in AppLists}

\* bodies of GET /terrain/apps/{system_id}/{app_id}
DetailBodies ==
    {Malformed, Json(EmptyObject)}
        \cup {Json([id |-> i]) : i \in AppIds}
        \cup {Json([id |-> "X", name |-> "JupyterLab", system_id |-> "de"])}

\* http.client reads no body behind a 1xx, 204 or 304 status line: the text
\* r.json() then sees is empty, which is not JSON
NoBody(status) == (status >= 100 /\ status < 200) \/ status \in {204, 304}

\* the responses requests.get can return for a call
Responses(bodies) ==
    {resp \in [status : Statuses, body : bodies] :
        NoBody(resp.status) => resp.body = Malformed}

----------------------------------------------------------------------------
(* The library calls the cells make *)

BaseUrl == "https://de.cyverse.org"

\* a status check that tests for server errors only
RaiseForStatusServerOnly(status) == status >= 500 /\ status < 600

\* a status check that tests for client errors only
RaiseForStatusClientOnly(status) == status >= 400 /\ status < 500

\* requests.Response.raise_for_status: raises HTTPError for 4xx and 5xx
RaiseForStatus(status) == status >= 400 /\ status < 600

\* the call requests.get(url, auth=..., headers=..., params=...)
Request(u, auth, headers, params) ==
    [url |-> u, auth |-> auth, headers |-> headers, params |-> params]

\* what came back: a response with a status, or a transport failure
Returned(resp) == [net |-> TRUE, status |-> resp.status, body |-> resp.body]
NetworkFailure == [net |-> FALSE, status |-> 0, body |-> Malformed]

\* an uncaught exception of class e ends the run where it stands
Raise(e) ==
    /\ pc' = "aborted"
    /\ error' = e

Goto(l) ==
    /\ pc' = l
    /\ error' = error

----------------------------------------------------------------------------
Init ==
    /\ pc = "l75"
    /\ error = "none"
    /\ username = Unbound
    /\ password = Unbound
    /\ r = NoResponse
    /\ token = JStr(Unbound)
    /\ auth_headers = NoObject
    /\ query_params = NoObject
    /\ app_listing = NoObject
    /\ system_id = Unbound
    /\ app_id = Unbound
    /\ url = Unbound
    /\ printed = <<>>
    /\ pprinted = <<>>
    /\ sent = <<>>
    /\ recv = <<>>

----------------------------------------------------------------------------
(* Credential prompt cell *)

\* print("Username: ", ...); username = input()
ReadUsername ==
    /\ pc = "l75"
    /\ printed' = Append(printed, <<"Username: ">>)
    /\ \E u \in Usernames : username' = u
    /\ Goto("l77")
    /\ UNCHANGED <<password, r, token, auth_headers, query_params, app_listing,
                   system_id, app_id, url, pprinted, sent, recv>>

\* input() at end of input
ReadUsernameEOF ==
    /\ pc = "l75"
    /\ printed' = Append(printed, <<"Username: ">>)
    /\ Raise("EOFError")
    /\ UNCHANGED <<globals, pprinted, sent, recv>>

\* print("Password: ", ...); password = getpass.getpass()
ReadPassword ==
    /\ pc = "l77"
    /\ printed' = Append(printed, <<"Password: ">>)
    /\ \E p \in Passwords : password' = p
    /\ Goto("l94")
    /\ UNCHANGED <<username, r, token, auth_headers, query_params, app_listing,
                   system_id, app_id, url, pprinted, sent, recv>>

\* getpass.getpass() at end of input
ReadPasswordEOF ==
    /\ pc = "l77"
    /\ printed' = Append(printed, <<"Password: ">>)
    /\ Raise("EOFError")
    /\ UNCHANGED <<globals, pprinted, sent, recv>>

----------------------------------------------------------------------------
(* Token exchange cell *)

TokenRequest ==
    Request(BaseUrl \o "/terrain/token", <<username, password>>, NoObject, NoObject)

\* requests.get(".../terrain/token", auth=(username, password)) goes out
TokenSend ==
    /\ pc = "l94"
    /\ sent' = Append(sent, TokenRequest)
    /\ Goto("l94_wait")
    /\ UNCHANGED <<globals, printed, pprinted, recv>>

\* r = <the response>
TokenRecv ==
    /\ pc = "l94_wait"
    /\ \E resp \in Responses(TokenBodies) :
        /\ r' = resp
        /\ recv' = Append(recv, Returned(resp))
    /\ Goto("l95")
    /\ UNCHANGED <<username, password, token, auth_headers, query_params,
                   app_listing, system_id, app_id, url, printed, pprinted, sent>>

\* the transport error is swallowed and the next cell runs
TokenNetErrSwallowed ==
    /\ pc = "l94_wait"
    /\ recv' = Append(recv, NetworkFailure)
    /\ Goto("l119")
    /\ UNCHANGED <<globals, printed, pprinted, sent>>

\* requests.get raises (connection refused, timeout, ...): r is not assigned
TokenNetErr ==
    /\ pc = "l94_wait"
    /\ recv' = Append(recv, NetworkFailure)
    /\ Raise("ConnectionError")
    /\ UNCHANGED <<globals, printed, pprinted, sent>>

\* a failed token request is tried again
TokenRaiseForStatusRetry ==
    /\ pc = "l95"
    /\ IF RaiseForStatus(r.status) THEN Goto("l94") ELSE Goto("l96")
    /\ UNCHANGED <<globals, printed, pprinted, sent, recv>>

\* r.raise_for_status()
TokenRaiseForStatus ==
    /\ pc = "l95"
    /\ IF RaiseForStatus(r.status) THEN Raise("HTTPError") ELSE Goto("l96")
    /\ UNCHANGED <<globals, printed, pprinted, sent, recv>>

\* token = r.json()['access_token']
TokenParse ==
    /\ pc = "l96"
    /\ IF ~r.body.wf
         THEN Raise("JSONDecodeError") /\ token' = token
         ELSE IF "access_token" \notin DOMAIN r.body.value
                THEN Raise("KeyError") /\ token' = token
                ELSE Goto("l97") /\ token' = r.body.value.access_token
    /\ UNCHANGED <<username, password, r, auth_headers, query_params,
                   app_listing, system_id, app_id, url, printed, pprinted, sent, recv>>

\* the scheme and the token run together
BearerHeadersNoSpace(t) == [Authorization |-> "Bearer" \o t]

\* {"Authorization": "Bearer " + token}
BearerHeaders(t) == [Authorization |-> "Bearer " \o t]

\* auth_headers = {"Authorization": "Bearer " + token}; str + non-str is a TypeError
BuildAuthHeaders ==
    /\ pc = "l97"
    /\ IF token.t # "str"
         THEN Raise("TypeError") /\ auth_headers' = auth_headers
         ELSE Goto("l119") /\ auth_headers' = BearerHeaders(token.v)
    /\ UNCHANGED <<username, password, r, token, query_params,
                   app_listing, system_id, app_id, url, printed, pprinted, sent, recv>>

----------------------------------------------------------------------------
(* App search cell *)

\* query_params = {"search": "JupyterLab-with-sql-1.0.9"}
SetQueryParams ==
    /\ pc = "l119"
    /\ query_params' = [search |-> "JupyterLab-with-sql-1.0.9"]
    /\ Goto("l120")
    /\ UNCHANGED <<username, password, r, token, auth_headers,
                   app_listing, system_id, app_id, url, printed, pprinted, sent, recv>>

\* the Basic credentials are passed along again
SearchRequestWithAuth ==
    Request(BaseUrl \o "/terrain/apps", <<username, password>>, auth_headers, query_params)

SearchRequest ==
    Request(BaseUrl \o "/terrain/apps", <<>>, auth_headers, query_params)

\* requests.get(".../terrain/apps", headers=auth_headers, params=query_params) goes out
SearchSend ==
    /\ pc = "l120"
    /\ sent' = Append(sent, SearchRequest)
    /\ Goto("l120_wait")
    /\ UNCHANGED <<globals, printed, pprinted, recv>>

\* r = <the response>
SearchRecv ==
    /\ pc = "l120_wait"
    /\ \E resp \in Responses(SearchBodies) :
        /\ r' = resp
        /\ recv' = Append(recv, Returned(resp))
    /\ Goto("l121")
    /\ UNCHANGED <<username, password, token, auth_headers, query_params,
                   app_listing, system_id, app_id, url, printed, pprinted, sent>>

\* requests.get raises: r keeps the token response
SearchNetErr ==
    /\ pc = "l120_wait"
    /\ recv' = Append(recv, NetworkFailure)
    /\ Raise("ConnectionError")
    /\ UNCHANGED <<globals, printed, pprinted, sent>>

\* r.raise_for_status()
SearchRaiseForStatus ==
    /\ pc = "l121"
    /\ IF RaiseForStatus(r.status) THEN Raise("HTTPError") ELSE Goto("l122")
    /\ UNCHANGED <<globals, printed, pprinted, sent, recv>>

\* pprint.pprint(r.json())
SearchPrint ==
    /\ pc = "l122"
    /\ IF ~r.body.wf
         THEN Raise("JSONDecodeError") /\ pprinted' = pprinted
         ELSE Goto("l140") /\ pprinted' = Append(pprinted, r.body.value)
    /\ UNCHANGED <<globals, printed, sent, recv>>

----------------------------------------------------------------------------
(* App selection cell *)

\* apps[-1]
LastApp(apps) == apps[Len(apps)]

\* apps[0]
FirstApp(apps) == apps[1]

\* an empty list selects an empty record instead of raising
SelectAppLenient ==
    /\ pc = "l140"
    /\ IF ~r.body.wf
         THEN Raise("JSONDecodeError") /\ app_listing' = app_listing
         ELSE IF "apps" \notin DOMAIN r.body.value
                THEN Raise("KeyError") /\ app_listing' = app_listing
                ELSE IF Len(r.body.value.apps) = 0
                       THEN Goto("l141") /\ app_listing' = EmptyObject
                       ELSE Goto("l141") /\ app_listing' = FirstApp(r.body.value.apps)
    /\ UNCHANGED <<username, password, r, token, auth_headers, query_params,
                   system_id, app_id, url, printed, pprinted, sent, recv>>

\* app_listing = r.json()["apps"][0]
SelectApp ==
    /\ pc = "l140"
    /\ IF ~r.body.wf
         THEN Raise("JSONDecodeError") /\ app_listing' = app_listing
         ELSE IF "apps" \notin DOMAIN r.body.value
                THEN Raise("KeyError") /\ app_listing' = app_listing
                ELSE IF Len(r.body.value.apps) = 0
                       THEN Raise("IndexError") /\ app_listing' = app_listing
                       ELSE Goto("l141") /\ app_listing' = FirstApp(r.body.value.apps)
    /\ UNCHANGED <<username, password, r, token, auth_headers, query_params,
                   system_id, app_id, url, printed, pprinted, sent, recv>>

\* system_id = app_listing["system_id"]
GetSystemId ==
    /\ pc = "l141"
    /\ IF "system_id" \notin DOMAIN app_listing
         THEN Raise("KeyError") /\ system_id' = system_id
         ELSE Goto("l142") /\ system_id' = app_listing.system_id
    /\ UNCHANGED <<username, password, r, token, auth_headers, query_params,
                   app_listing, app_id, url, printed, pprinted, sent, recv>>

\* app_id = app_listing["id"]
GetAppId ==
    /\ pc = "l142"
    /\ IF "id" \notin DOMAIN app_listing
         THEN Raise("KeyError") /\ app_id' = app_id
         ELSE Goto("l143") /\ app_id' = app_listing.id
    /\ UNCHANGED <<username, password, r, token, auth_headers, query_params,
                   app_listing, system_id, url, printed, pprinted, sent, recv>>

\* print("System ID: ", system_id)
PrintSystemId ==
    /\ pc = "l143"
    /\ printed' = Append(printed, <<"System ID: ", system_id>>)
    /\ Goto("l144")
    /\ UNCHANGED <<globals, pprinted, sent, recv>>

\* print("App ID: ", app_id)
PrintAppId ==
    /\ pc = "l144"
    /\ printed' = Append(printed, <<"App ID: ", app_id>>)
    /\ Goto("l160")
    /\ UNCHANGED <<globals, pprinted, sent, recv>>

----------------------------------------------------------------------------
(* App detail cell *)

\* "https://de.cyverse.org/terrain/apps/{0}/{1}".format(sid, aid)
DetailUrl(sid, aid) == BaseUrl \o "/terrain/apps/" \o sid \o "/" \o aid

\* url = "...".format(system_id, app_id)
BuildUrl ==
    /\ pc = "l160"
    /\ url' = DetailUrl(system_id, app_id)
    /\ Goto("l161")
    /\ UNCHANGED <<username, password, r, token, auth_headers, query_params,
                   app_listing, system_id, app_id, printed, pprinted, sent, recv>>

DetailRequest == Request(url, <<>>, auth_headers, NoObject)

\* requests.get(url, headers=auth_headers) goes out
DetailSend ==
    /\ pc = "l161"
    /\ sent' = Append(sent, DetailRequest)
    /\ Goto("l161_wait")
    /\ UNCHANGED <<globals, printed, pprinted, recv>>

\* r = <the response>
DetailRecv ==
    /\ pc = "l161_wait"
    /\ \E resp \in Responses(DetailBodies) :
        /\ r' = resp
        /\ recv' = Append(recv, Returned(resp))
    /\ Goto("l162")
    /\ UNCHANGED <<username, password, token, auth_headers, query_params,
                   app_listing, system_id, app_id, url, printed, pprinted, sent>>

\* requests.get raises: r keeps the search response
DetailNetErr ==
    /\ pc = "l161_wait"
    /\ recv' = Append(recv, NetworkFailure)
    /\ Raise("ConnectionError")
    /\ UNCHANGED <<globals, printed, pprinted, sent>>

\* a missing app is taken for an empty result and the run ends quietly
DetailRaiseForStatusQuiet404 ==
    /\ pc = "l162"
    /\ IF r.status = 404
         THEN Goto("done")
         ELSE IF RaiseForStatus(r.status) THEN Raise("HTTPError") ELSE Goto("l163")
    /\ UNCHANGED <<globals, printed, pprinted, sent, recv>>

\* r.raise_for_status()
DetailRaiseForStatus ==
    /\ pc = "l162"
    /\ IF RaiseForStatus(r.status) THEN Raise("HTTPError") ELSE Goto("l163")
    /\ UNCHANGED <<globals, printed, pprinted, sent, recv>>

\* the selected search result is printed instead of the response
DetailPrintListing ==
    /\ pc = "l163"
    /\ IF ~r.body.wf
         THEN Raise("JSONDecodeError") /\ pprinted' = pprinted
         ELSE Goto("done") /\ pprinted' = Append(pprinted, app_listing)
    /\ UNCHANGED <<globals, printed, sent, recv>>

\* pprint.pprint(r.json()); the last statement of the last code cell
DetailPrint ==
    /\ pc = "l163"
    /\ IF ~r.body.wf
         THEN Raise("JSONDecodeError") /\ pprinted' = pprinted
         ELSE Goto("done") /\ pprinted' = Append(pprinted, r.body.value)
    /\ UNCHANGED <<globals, printed, sent, recv>>

----------------------------------------------------------------------------
Next ==
    \/ ReadUsername
    \/ ReadUsernameEOF
    \/ ReadPassword
    \/ ReadPasswordEOF
    \/ TokenSend
    \/ TokenRecv
    \/ TokenNetErr
    \/ TokenRaiseForStatus
    \/ TokenParse
    \/ BuildAuthHeaders
    \/ SetQueryParams
    \/ SearchSend
    \/ SearchRecv
    \/ SearchNetErr
    \/ SearchRaiseForStatus
    \/ SearchPrint
    \/ SelectApp
    \/ GetSystemId
    \/ GetAppId
    \/ PrintSystemId
    \/ PrintAppId
    \/ BuildUrl
    \/ DetailSend
    \/ DetailRecv
    \/ DetailNetErr
    \/ DetailRaiseForStatus
    \/ DetailPrint

Spec == Init /\ [][Next]_vars

\* every statement that can run does run, and every request that went out
\* comes back with a response or a transport error
FairSpec == Spec /\ WF_vars(Next)

----------------------------------------------------------------------------
(* Vocabulary of the properties *)

TokenUrl == BaseUrl \o "/terrain/token"
SearchUrl == BaseUrl \o "/terrain/apps"
Terminal == {"done", "aborted"}

\* the i-th call got a response with a 4xx or 5xx status
HttpErrorAt(i) == recv[i].net /\ recv[i].status >= 400 /\ recv[i].status < 600

\* the i-th call failed: no response at all, or an error status
FailedAt(i) == ~recv[i].net \/ HttpErrorAt(i)

\* the i-th call came back, passed the status check (requests' Response.ok)
\* and its body parsed
SucceededAt(i) == recv[i].net /\ ~HttpErrorAt(i) /\ recv[i].body.wf

\* the token response carried a string in its access_token field
TokenIssued ==
    /\ Len(recv) >= 1
    /\ recv[1].net
    /\ recv[1].body.wf
    /\ "access_token" \in DOMAIN recv[1].body.value
    /\ recv[1].body.value.access_token.t = "str"

IssuedToken == recv[1].body.value.access_token.v

\* the search response carried an "apps" list
AppsListed ==
    /\ Len(recv) >= 2
    /\ recv[2].net
    /\ recv[2].body.wf
    /\ "apps" \in DOMAIN recv[2].body.value

ListedApps == recv[2].body.value.apps

\* the statement that checks the status of the i-th response
StatusCheck(i) == IF i = 1 THEN "l95" ELSE IF i = 2 THEN "l121" ELSE "l162"

----------------------------------------------------------------------------
(* C1: when the token request is answered 401 the run aborts: no search   *)
(* and no detail request is ever issued and auth_headers is never built.  *)
C1_Abort401 ==
    (Len(recv) >= 1 /\ recv[1].net /\ recv[1].status = 401) =>
        /\ Len(sent) = 1
        /\ sent[1].url = TokenUrl
        /\ auth_headers = NoObject
        /\ pc \in {"l95", "aborted"}

C1_Witness ==
    /\ pc = "aborted"
    /\ error = "HTTPError"
    /\ Len(recv) = 1
    /\ recv[1].status = 401
    /\ recv[1].body = Json([access_token |-> JStr("abc123")])

(* C2: every request issued after the token exchange carries              *)
(* Authorization = "Bearer " followed by the issued token verbatim, and   *)
(* auth_headers, once built, holds that value in every later state.       *)
C2_BearerVerbatim ==
    /\ \A i \in 2..Len(sent) :
        /\ TokenIssued
        /\ sent[i].headers = [Authorization |-> "Bearer " \o IssuedToken]
    /\ auth_headers # NoObject =>
        /\ TokenIssued
        /\ auth_headers = [Authorization |-> "Bearer " \o IssuedToken]

C2_Witness ==
    /\ Len(sent) = 3
    /\ IssuedToken = "abc123"
    /\ sent[2].headers.Authorization = "Bearer abc123"
    /\ sent[3].headers.Authorization = "Bearer abc123"

(* C3: the detail request goes to /terrain/apps/{system_id}/{id} of the   *)
(* first element of the apps list as the server returned it; the record   *)
(* selected is that first element whatever the rest of the list holds.    *)
C3_FirstResult ==
    /\ app_listing # NoObject => AppsListed /\ app_listing = ListedApps[1]
    /\ Len(sent) >= 3 =>
        /\ AppsListed
        /\ sent[3].url =
             BaseUrl \o "/terrain/apps/" \o ListedApps[1].system_id
                     \o "/" \o ListedApps[1].id

C3_Witness ==
    /\ Len(sent) = 3
    /\ ListedApps = <<[system_id |-> "de", id |-> "X"],
                      [system_id |-> "agave", id |-> "Y"]>>
    /\ sent[3].url = "https://de.cyverse.org/terrain/apps/de/X"

(* C4: a search that succeeds with an empty apps list makes the selection *)
(* fail with an IndexError: the run aborts and no detail request is       *)
(* issued.                                                                *)
C4_EmptySelection ==
    (AppsListed /\ ~HttpErrorAt(2) /\ Len(ListedApps) = 0) =>
        /\ Len(sent) = 2
        /\ app_listing = NoObject
        /\ \/ pc \in {"l121", "l122", "l140"}
           \/ pc = "aborted" /\ error = "IndexError"

C4_Witness ==
    /\ AppsListed
    /\ recv[2].status = 200
    /\ Len(ListedApps) = 0
    /\ pc = "aborted"
    /\ error = "IndexError"

(* C5 as stated: after each of the three calls any status outside 2xx     *)
(* raises an HTTPError at the status check, before the body is parsed,    *)
(* printed or used.                                                       *)
C5_NonSuccessRaises ==
    \A i \in 1..Len(recv) :
        (recv[i].net /\ ~(recv[i].status >= 200 /\ recv[i].status < 300)) =>
            /\ i = Len(recv)
            /\ \/ pc = StatusCheck(i)
               \/ pc = "aborted" /\ error = "HTTPError"

(* C5 amended: after each of the three calls a 4xx or 5xx status raises   *)
(* an HTTPError at the status check, before the body is parsed, printed   *)
(* or used by a later step; no other status raises it, so a 1xx or 3xx    *)
(* response passes the check and its body is parsed like a 2xx one.       *)
C5_ErrorStatusRaises ==
    /\ \A i \in 1..Len(recv) :
        HttpErrorAt(i) =>
            /\ i = Len(recv)
            /\ \/ pc = StatusCheck(i)
               \/ pc = "aborted" /\ error = "HTTPError"
            /\ Len(pprinted) = (IF i = 3 THEN 1 ELSE 0)
            /\ i = 1 => token = JStr(Unbound)
            /\ i = 2 => app_listing = NoObject
    /\ error = "HTTPError" => Len(recv) >= 1 /\ HttpErrorAt(Len(recv))

C5_Witness ==
    /\ pc = "aborted"
    /\ error = "HTTPError"
    /\ Len(recv) = 3
    /\ recv[3].status = 500
    /\ recv[3].body.wf

(* C6 as stated: the credentials appear only in the Basic auth of the     *)
(* token request, never in the search or detail request nor in printed    *)
(* output, and are no longer held once the token exchange has completed.  *)
CredentialsConfined ==
    /\ \A i \in 1..Len(sent) :
        IF i = 1
          THEN /\ sent[i].url = TokenUrl
               /\ sent[i].auth = <<username, password>>
               /\ sent[i].headers = NoObject
               /\ sent[i].params = NoObject
          ELSE /\ sent[i].auth = <<>>
               /\ sent[i].headers \in {[Authorization |-> "Bearer " \o t] : t \in Tokens}
               /\ sent[i].url \in
                    {SearchUrl} \cup
                    {BaseUrl \o "/terrain/apps/" \o sid \o "/" \o aid :
                        sid \in SystemIds, aid \in AppIds}
               /\ sent[i].params \in {NoObject, [search |-> "JupyterLab-with-sql-1.0.9"]}
    /\ \A i \in 1..Len(printed) :
        printed[i] \in
            {<<"Username: ">>, <<"Password: ">>}
                \cup {<<"System ID: ", sid>> : sid \in SystemIds}
                \cup {<<"App ID: ", aid>> : aid \in AppIds}
    /\ \A i \in 1..Len(pprinted) : pprinted[i] = recv[i + 1].body.value

C6_CredentialsDropped ==
    /\ CredentialsConfined
    /\ auth_headers # NoObject => username = Unbound /\ password = Unbound

(* C6 amended: the credentials appear only in the Basic auth of the token *)
(* request, never in the search or detail request nor in printed output;  *)
(* they are never cleared: username and password keep the values sent in  *)
(* the token request in every later state, to the end of the run.         *)
C6_CredentialsKept ==
    /\ CredentialsConfined
    /\ Len(sent) >= 1 =>
        /\ username \in Usernames
        /\ password \in Passwords
        /\ <<username, password>> = sent[1].auth

C6_Witness ==
    /\ pc = "done"
    /\ Len(sent) = 3
    /\ username = "alice"
    /\ password = "s3cret"
    /\ sent[1].auth = <<"alice", "s3cret">>

(* C7: the steps run in a fixed order, each on the output of the one      *)
(* before: the token request after both credentials were read, the search *)
(* request after a token response that succeeded, the selection after a   *)
(* search response that succeeded, the detail request after the           *)
(* selection; no request goes out while an earlier one is outstanding or  *)
(* has failed.  A response succeeded when the status check let it pass    *)
(* and its body parsed.                                                   *)
C7_StrictOrder ==
    /\ Len(recv) <= Len(sent)
    /\ Len(sent) <= Len(recv) + 1
    /\ \A i \in 1..(Len(sent) - 1) : SucceededAt(i)
    /\ Len(sent) >= 1 =>
        /\ username \in Usernames
        /\ password \in Passwords
        /\ sent[1] = Request(TokenUrl, <<username, password>>, NoObject, NoObject)
    /\ Len(sent) >= 2 =>
        /\ TokenIssued
        /\ token = recv[1].body.value.access_token
        /\ sent[2] = Request(SearchUrl, <<>>, auth_headers, query_params)
        /\ auth_headers # NoObject
    /\ app_listing # NoObject =>
        /\ AppsListed
        /\ SucceededAt(2)
        /\ Len(pprinted) >= 1
    /\ Len(sent) >= 3 =>
        /\ app_listing # NoObject
        /\ system_id = app_listing.system_id
        /\ app_id = app_listing.id
        /\ Len(printed) = 4
        /\ sent[3] = Request(url, <<>>, auth_headers, NoObject)

C7_Witness ==
    /\ pc = "l161_wait"
    /\ Len(sent) = 3
    /\ Len(recv) = 2
    /\ recv[1].status = 200
    /\ recv[2].status = 200

(* C8: what a successful detail request hands to the printer is exactly   *)
(* the parsed response body, nothing added, removed, extracted or         *)
(* transformed.                                                           *)
C8_DetailPassThrough ==
    /\ pc = "done" => Len(pprinted) = 2
    /\ Len(pprinted) >= 2 =>
        /\ Len(recv) = 3
        /\ recv[3].body.wf
        /\ pprinted[2] = recv[3].body.value
        /\ r.body = recv[3].body

C8_Witness ==
    /\ pc = "done"
    /\ pprinted[2] = [id |-> "X", name |-> "JupyterLab", system_id |-> "de"]

(* C9: no retries and no recovery: each endpoint is requested at most     *)
(* once, a run issues at most three requests, and after a failed request  *)
(* (no response, or an error status) no further request is issued.        *)
C9_NoRetry ==
    /\ Len(sent) <= 3
    /\ \A i, j \in 1..Len(sent) : sent[i].url = sent[j].url => i = j
    /\ Cardinality({i \in 1..Len(sent) : sent[i].url \notin {TokenUrl, SearchUrl}}) <= 1
    /\ \A i \in 1..Len(recv) : FailedAt(i) => Len(sent) = i /\ Len(recv) = i
    /\ error # "none" => Len(sent) = Len(recv)

C9_Witness ==
    /\ pc = "aborted"
    /\ Len(sent) = 2
    /\ Len(recv) = 2
    /\ ~recv[2].net

(* C10: with every statement that can run running and every request       *)
(* coming back, the run ends: completed, the detail record printed, or    *)
(* aborted; whichever step failed and whatever the failure (401, 404,     *)
(* 500, no response) the outcome is the one aborted state, from which     *)
(* nothing more happens.                                                  *)
OneOutcome ==
    /\ error # "none" <=> pc = "aborted"
    /\ \A i \in 1..Len(recv) :
        FailedAt(i) => pc = "aborted" \/ (i = Len(recv) /\ pc = StatusCheck(i))
    /\ pc = "done" =>
        /\ Len(recv) = 3
        /\ \A i \in 1..3 : SucceededAt(i)
        /\ Len(pprinted) = 2

C10_Terminates ==
    /\ <>(pc \in Terminal)
    /\ []OneOutcome
    /\ [][pc \notin Terminal]_vars

C10_Witness ==
    /\ pc = "aborted"
    /\ error = "ConnectionError"
    /\ Len(recv) = 2
    /\ recv[1].status = 200

====
